---- MODULE Spec2Model ----
(***************************************************************************)
(* The wallet transaction engine of backend/src/services/walletService.js  *)
(* as a state machine.  Redis is the shared key-value service (the         *)
(* wallet_lock, wallet_balance, wallet_id, redis_cleanup keys of a user)   *)
(* and                                                                     *)
(* PostgreSQL, reached through WalletRepository, is the ledger (one wallet *)
(* row and the transaction rows of every user).  Every worker runs one     *)
(* call of the service at a time; each await of the JavaScript code is one *)
(* step of the worker, and the steps of different workers interleave.      *)
(*                                                                         *)
(* WalletRepository is not part of the sources at hand: its operations     *)
(* (RecordTransaction, RepoDeposit, RepoWithdraw, VerifyAndSyncBalance,    *)
(* the creation of a wallet) follow the                                    *)
(* contract of the ledger store and of the reconciliation engine in the    *)
(* specification document.                                                 *)
(***************************************************************************)
EXTENDS Integers, Sequences, FiniteSets, TLC

\* Bounds of the model.
MaxAmt == 1          \* largest amount a caller passes
MaxDrift == 1        \* largest drifted balance of InitDrift
NumUsers == 2        \* users
MaxSeqLen == 4        \* calls of the one caller of SpecSeq

\* Two workers, each serving one call: every overlap of two calls.
Workers == {1, 2}
Users == 1..NumUsers
Amounts == 0..MaxAmt

VARIABLES
  lock,        \* Redis, per lock key: <<>> when absent, else <<token>>
  nextToken,   \* uuidv4(): every acquisition draws a value never used before
  hasWallet,   \* ledger: whether the user's wallet row exists
  balance,     \* ledger: wallets.balance of the user
  txs,         \* ledger: the user's transaction rows, oldest first
  cache,       \* Redis wallet_balance:<userId>: <<>> or <<[v, ttl]>>
  widCache,    \* Redis wallet_id:<userId>: whether the key is set
  wk,          \* the call each worker is running, and where it stands
  marker,      \* Redis redis_cleanup:<userId>: whether the key is set
  reconRuns,   \* history: consecutive undisturbed balance reads of the user
  hist         \* history: what the calls that returned to their caller gave

vars == <<lock, nextToken, hasWallet, balance, txs, cache, widCache, wk,
          marker, reconRuns, hist>>

----------------------------------------------------------------------------
\* The operations of the service.

AmountOps == {"deposit", "withdraw", "placeBet", "processWinnings", "cashout",
              "depositFunds", "withdrawFunds"}
MutOps == AmountOps \cup {"createWallet"}
CleanupOps == {"clearOutdatedRedisEntries", "scheduleRedisCleanup",
               "manualRedisCleanup"}
NotifyOps == {"placeBet", "processWinnings", "cashout"}
ReadOp == "getUserProfileBalance"

Idle == [pc |-> "idle", op |-> "none", user |-> 0, amt |-> 0, tok |-> <<>>,
         res |-> <<>>, err |-> "none", relDone |-> FALSE, relErr |-> FALSE,
         relSaw |-> "none", cacheFail |-> FALSE, notifyFail |-> FALSE,
         sawWid |-> FALSE, snapBal |-> 0,
         snapCache |-> <<>>, corrected |-> FALSE, clean |-> FALSE, nth |-> 0,
         attempts |-> 0, ledgerFail |-> FALSE, created |-> FALSE,
         pat |-> 0, setOk |-> FALSE, cleaned |-> FALSE, logged |-> FALSE]

Active(w) == wk[w].pc \notin {"idle", "done"}

\* The lockReason each operation passes to acquireWalletLock.
Purpose(op) ==
  CASE op \in {"deposit", "depositFunds"} -> "deposit_transaction"
    [] op \in {"withdraw", "withdrawFunds"} -> "withdrawal_transaction"
    [] op = "placeBet" -> "bet_placement_transaction"
    [] op = "processWinnings" -> "game_winnings_transaction"
    [] op = "cashout" -> "cashout_transaction"
    [] op = "createWallet" -> "wallet_creation"

\* const lockKey = `wallet_lock:${userId}`: the reason is not part of it.
LockKeyWithPurpose(u, purpose) == <<"wallet_lock", u, purpose>>
LockKeyGlobal(u, purpose) == <<"wallet_lock">>
LockKey(u, purpose) == <<"wallet_lock", u>>

LockKeys == {LockKey(u, Purpose(op)) : u \in Users, op \in MutOps}

\* The lock key of the call with record r.
KeyOf(r) == LockKey(r.user, Purpose(r.op))

Min(a, b) == IF a < b THEN a ELSE b

RECURSIVE SumAmounts(_)
SumAmounts(s) == IF s = <<>> THEN 0 ELSE s[1].amount + SumAmounts(Tail(s))

----------------------------------------------------------------------------
\* WalletRepository (the ledger store).

\* recordTransaction(userId, type, amount, balanceAfter, metadata), one atomic
\* unit: the new balance is the stored balance plus the amount unless the
\* caller hands one over, the transaction row carries it as balanceAfter, and
\* the wallet row (created when missing) is updated to it.
RecordTransaction(u, type, amount, balanceAfter) ==
  LET nb == IF balanceAfter = <<>> THEN balance[u] + amount
            ELSE balanceAfter[1]
  IN [bal |-> nb,
      row |-> [type |-> type, amount |-> amount, balanceAfter |-> nb]]

\* WalletRepository.deposit(userId, walletId, amount, description, method,
\* currency): records the signed amount it is given.
RepoDeposit(u, type, amount) == RecordTransaction(u, type, amount, <<>>)

\* WalletRepository.withdraw(userId, amount, description): records a debit.
RepoWithdraw(u, amount) == RecordTransaction(u, "withdraw", 0 - amount, <<>>)

\* verifyAndSyncBalance(userId): sums the history, compares the sum with the
\* stored balance, and the stored balance becomes the sum.
VerifyAndSyncBalance(u) ==
  LET calc == SumAmounts(txs[u])
  IN [currentBalance |-> balance[u], calculatedBalance |-> calc,
      corrected |-> (calc # balance[u]), difference |-> calc - balance[u]]

----------------------------------------------------------------------------
\* WalletService: the pieces of the calls.

\* if (amount <= 0) throw.
InvalidAmountStrict(a) == a < 0
InvalidAmount(a) == a <= 0

\* redisClient.set(lockKey, lockValue, {NX, PX}): sets the key only when it
\* is absent.
LockAcquired(k) == lock[k] = <<>>

\* if (!lockAcquired) throw: the call ends on the first refused SET; there is
\* no loop around it.
OnContentionRetry(r) == [r EXCEPT !.attempts = @ + 1]
OnContention(r) ==
  [r EXCEPT !.attempts = @ + 1, !.err = "contention", !.pc = "done"]

\* The unlock script: the key is deleted when its value is the token given.
UnlockScriptWrong(cur, token) == <<>>
UnlockScript(cur, token) == IF cur = <<token>> THEN <<>> ELSE cur

\* What the release step found under the key (history only).
RelSaw(cur, token) ==
  IF cur = <<>> THEN "absent" ELSE IF cur = <<token>> THEN "own" ELSE "other"

\* catch { throw error } finally { if (walletLock) release }: where a call
\* goes once its try block is left.
FinallyPcNoRelease(tok) == "done"
FinallyPc(tok) == IF tok # <<>> THEN "release" ELSE "done"

\* The ledger call threw: catch logs and rethrows, finally releases.
LedgerFailureSwallowed(r) ==
  [r EXCEPT !.ledgerFail = TRUE, !.res = <<balance[r.user]>>, !.pc = "cache"]
LedgerFailure(r) ==
  [r EXCEPT !.ledgerFail = TRUE, !.err = "persistence",
            !.pc = FinallyPc(r.tok)]

\* The ledger call of each operation, with the signed amount it hands over.
WithdrawCallStale(u, a) ==
  RecordTransaction(u, "withdraw", a, <<balance[u] - a>>)
WithdrawCall(u, a) == RecordTransaction(u, "withdraw", a, <<>>)

LedgerCallCashoutDebit(op, u, a) ==
  CASE op = "deposit" -> RepoDeposit(u, "deposit", a)
    [] op = "placeBet" -> RepoDeposit(u, "bet", 0 - a)
    [] op = "processWinnings" -> RepoDeposit(u, "win", a)
    [] op = "cashout" -> RepoDeposit(u, "cashout", 0 - a)
    [] op = "withdraw" -> WithdrawCall(u, a)
    [] op = "depositFunds" -> RepoDeposit(u, "deposit", a)
    [] op = "withdrawFunds" -> RepoWithdraw(u, a)

LedgerCall(op, u, a) ==
  CASE op = "deposit" -> RepoDeposit(u, "deposit", a)
    [] op = "placeBet" -> RepoDeposit(u, "bet", 0 - a)
    [] op = "processWinnings" -> RepoDeposit(u, "win", a)
    [] op = "cashout" -> RepoDeposit(u, "cashout", a)
    [] op = "withdraw" -> WithdrawCall(u, a)
    [] op = "depositFunds" -> RepoDeposit(u, "deposit", a)
    [] op = "withdrawFunds" -> RepoWithdraw(u, a)

\* Whether the operation writes wallet_balance with an expiry (EX).
CacheTtl(op) == op \in {"depositFunds", "withdrawFunds"}

\* The step after the balance cache write.
AfterCache(r) ==
  IF r.op \in NotifyOps THEN "notify"
  ELSE IF r.op = "depositFunds" /\ ~r.sawWid THEN "widcache"
  ELSE FinallyPc(r.tok)

\* A call has started for user u: balance reads of u that overlap it, or are
\* followed by it, no longer count as undisturbed.
Started(w, r, u) ==
  /\ wk' = [x \in Workers |->
              IF x = w THEN r
              ELSE IF wk[x].op = ReadOp /\ wk[x].user = u /\ wk[x].pc # "idle"
                   THEN [wk[x] EXCEPT !.clean = FALSE]
                   ELSE wk[x]]

Step(w, r) == wk' = [wk EXCEPT ![w] = r]

\* Worker w may take a call for user u.  The workers are interchangeable and
\* so are the users: the workers take their calls in the order of their
\* numbers, and a user gets a call only when the users before have had one.
CanStart(w, u) ==
  /\ wk[w].pc = "idle"
  /\ \A x \in Workers : x < w => wk[x].pc # "idle"
  /\ \A v \in Users : v < u => \E x \in Workers : wk[x].user = v

----------------------------------------------------------------------------
\* The state after construction: no key in Redis, no wallet, nothing running.

Init ==
  /\ lock = [k \in LockKeys |-> <<>>]
  /\ nextToken = 1
  /\ hasWallet = [u \in Users |-> FALSE]
  /\ balance = [u \in Users |-> 0]
  /\ txs = [u \in Users |-> <<>>]
  /\ cache = [u \in Users |-> <<>>]
  /\ widCache = [u \in Users |-> FALSE]
  /\ wk = [w \in Workers |-> Idle]
  /\ reconRuns = [u \in Users |-> 0]
  /\ marker = [u \in Users |-> FALSE]
  /\ hist = <<>>

\* The same with wallets whose stored balance has drifted from their (empty)
\* history: the state verifyAndSyncBalance is there to repair.
InitDrift ==
  /\ lock = [k \in LockKeys |-> <<>>]
  /\ nextToken = 1
  /\ hasWallet = [u \in Users |-> TRUE]
  /\ \E d \in 1..MaxDrift : balance = [u \in Users |-> d]
  /\ txs = [u \in Users |-> <<>>]
  /\ cache = [u \in Users |-> <<>>]
  /\ widCache = [u \in Users |-> FALSE]
  /\ wk = [w \in Workers |-> Idle]
  /\ reconRuns = [u \in Users |-> 0]
  /\ marker = [u \in Users |-> FALSE]
  /\ hist = <<>>

----------------------------------------------------------------------------
\* deposit, withdraw, placeBet, processWinnings, cashout, depositFunds,
\* withdrawFunds: the call starts and validates its amount.  A rejected
\* amount throws before walletLock is set, so the finally block does nothing.
BeginMut(w, op, u, a) ==
  /\ CanStart(w, u)
  /\ LET r == [Idle EXCEPT !.op = op, !.user = u, !.amt = a]
     IN Started(w, IF InvalidAmount(a)
                   THEN [r EXCEPT !.pc = "done", !.err = "validation"]
                   ELSE [r EXCEPT !.pc = "acquire"], u)
  /\ reconRuns' = [reconRuns EXCEPT ![u] = 0]
  /\ UNCHANGED <<lock, nextToken, hasWallet, balance, txs, cache, widCache,
                 hist, marker>>

\* createWallet: no amount to validate.
BeginCreate(w, u) ==
  /\ CanStart(w, u)
  /\ Started(w, [Idle EXCEPT !.op = "createWallet", !.user = u,
                             !.pc = "acquire"], u)
  /\ reconRuns' = [reconRuns EXCEPT ![u] = 0]
  /\ UNCHANGED <<lock, nextToken, hasWallet, balance, txs, cache, widCache,
                 hist, marker>>

\* getUserProfileBalance: no lock is taken; the next await is
\* verifyAndSyncBalance.
BeginRead(w, u) ==
  /\ CanStart(w, u)
  /\ Started(w, [Idle EXCEPT !.op = ReadOp, !.user = u, !.pc = "verify",
                   !.snapBal = balance[u], !.snapCache = cache[u],
                   !.clean = \A x \in Workers \ {w} :
                                ~(Active(x) /\ wk[x].user = u)], u)
  /\ UNCHANGED <<lock, nextToken, hasWallet, balance, txs, cache, widCache,
                 reconRuns, hist, marker>>

\* acquireWalletLock: one SET NX PX with a fresh token.  When the key exists
\* the call throws with walletLock still null.
AcquireWalletLock(w) ==
  LET r == wk[w] IN
  /\ r.pc = "acquire"
  /\ IF LockAcquired(KeyOf(r))
     THEN /\ lock' = [lock EXCEPT ![KeyOf(r)] = <<nextToken>>]
          /\ nextToken' = nextToken + 1
          /\ Step(w, [r EXCEPT !.tok = <<nextToken>>, !.attempts = @ + 1,
                        !.pc = CASE r.op = "createWallet" -> "create"
                                 [] r.op = "depositFunds" -> "getwid"
                                 [] OTHER -> "ledger"])
     ELSE /\ Step(w, OnContention(r))
          /\ UNCHANGED <<lock, nextToken>>
  /\ UNCHANGED <<hasWallet, balance, txs, cache, widCache, reconRuns, hist,
                 marker>>

\* The SET itself fails (the lock service is unreachable).
AcquireFails(w) ==
  LET r == wk[w] IN
  /\ r.pc = "acquire"
  /\ Step(w, [r EXCEPT !.attempts = @ + 1, !.err = "lock_service",
                !.pc = "done"])
  /\ UNCHANGED <<lock, nextToken, hasWallet, balance, txs, cache, widCache,
                 reconRuns, hist, marker>>

\* depositFunds reads the cached wallet id before the ledger call.
GetWalletId(w) ==
  LET r == wk[w] IN
  /\ r.pc = "getwid"
  /\ \/ Step(w, [r EXCEPT !.sawWid = widCache[r.user], !.pc = "ledger"])
     \/ Step(w, [r EXCEPT !.err = "cache_read", !.pc = FinallyPc(r.tok)])
  /\ UNCHANGED <<lock, nextToken, hasWallet, balance, txs, cache, widCache,
                 reconRuns, hist, marker>>

\* The ledger call commits.
Ledger(w) ==
  LET r == wk[w]
      t == LedgerCall(r.op, r.user, r.amt)
  IN
  /\ r.pc = "ledger"
  /\ hasWallet' = [hasWallet EXCEPT ![r.user] = TRUE]
  /\ balance' = [balance EXCEPT ![r.user] = t.bal]
  /\ txs' = [txs EXCEPT ![r.user] =
               Append(@, [type |-> t.row.type, amount |-> t.row.amount,
                          balanceAfter |-> t.row.balanceAfter,
                          by |-> r.tok[1]])]
  /\ Step(w, [r EXCEPT !.res = <<t.bal>>, !.created = ~hasWallet[r.user],
                !.pc = "cache"])
  /\ UNCHANGED <<lock, nextToken, cache, widCache, reconRuns, hist, marker>>

\* WalletRepository.createWallet under the lock.
CreateLedger(w) ==
  LET r == wk[w] IN
  /\ r.pc = "create"
  /\ IF hasWallet[r.user]
     THEN /\ Step(w, [r EXCEPT !.err = "wallet_exists",
                        !.pc = FinallyPc(r.tok)])
          /\ UNCHANGED <<hasWallet, balance>>
     ELSE /\ hasWallet' = [hasWallet EXCEPT ![r.user] = TRUE]
          /\ balance' = [balance EXCEPT ![r.user] = 0]
          /\ Step(w, [r EXCEPT !.res = <<0>>, !.created = TRUE,
                        !.pc = "cache"])
  /\ UNCHANGED <<lock, nextToken, txs, cache, widCache, reconRuns, hist,
                 marker>>

\* The ledger call fails as a whole: nothing is written.
LedgerFails(w) ==
  LET r == wk[w] IN
  /\ r.pc \in {"ledger", "create"}
  /\ Step(w, LedgerFailure(r))
  /\ UNCHANGED <<lock, nextToken, hasWallet, balance, txs, cache, widCache,
                 reconRuns, hist, marker>>

\* redisClient.set(wallet_balance, result.newBalance).
CacheWrite(w) ==
  LET r == wk[w] IN
  /\ r.pc = "cache"
  /\ cache' = [cache EXCEPT ![r.user] =
                 <<[v |-> r.res[1], ttl |-> CacheTtl(r.op)]>>]
  /\ Step(w, [r EXCEPT !.pc = AfterCache(r)])
  /\ UNCHANGED <<lock, nextToken, hasWallet, balance, txs, widCache,
                 reconRuns, hist, marker>>

\* The cache write throws: the catch block logs and rethrows.
CacheWriteFails(w) ==
  LET r == wk[w] IN
  /\ r.pc = "cache"
  /\ Step(w, [r EXCEPT !.err = "cache", !.cacheFail = TRUE,
                !.pc = FinallyPc(r.tok)])
  /\ UNCHANGED <<lock, nextToken, hasWallet, balance, txs, cache, widCache,
                 reconRuns, hist, marker>>

\* depositFunds caches the wallet id when it had found none.
WidCacheWrite(w) ==
  LET r == wk[w] IN
  /\ r.pc = "widcache"
  /\ \/ /\ widCache' = [widCache EXCEPT ![r.user] = TRUE]
        /\ Step(w, [r EXCEPT !.pc = FinallyPc(r.tok)])
     \/ /\ Step(w, [r EXCEPT !.err = "cache", !.pc = FinallyPc(r.tok)])
        /\ UNCHANGED widCache
  /\ UNCHANGED <<lock, nextToken, hasWallet, balance, txs, cache, reconRuns,
                 hist, marker>>

\* walletSocket.emitWalletUpdate of placeBet, processWinnings and cashout.
Notify(w) ==
  LET r == wk[w] IN
  /\ r.pc = "notify"
  /\ Step(w, [r EXCEPT !.pc = FinallyPc(r.tok)])
  /\ UNCHANGED <<lock, nextToken, hasWallet, balance, txs, cache, widCache,
                 reconRuns, hist, marker>>

\* emitWalletUpdate throws inside the try block.
NotifyFails(w) ==
  LET r == wk[w] IN
  /\ r.pc = "notify"
  /\ Step(w, [r EXCEPT !.err = "notification", !.notifyFail = TRUE,
                !.pc = FinallyPc(r.tok)])
  /\ UNCHANGED <<lock, nextToken, hasWallet, balance, txs, cache, widCache,
                 reconRuns, hist, marker>>

\* releaseWalletLock in the finally block: the unlock script runs as one
\* step of the lock service.
ReleaseWalletLock(w) ==
  LET r == wk[w] IN
  /\ r.pc = "release"
  /\ lock' = [lock EXCEPT ![KeyOf(r)] = UnlockScript(@, r.tok[1])]
  /\ Step(w, [r EXCEPT !.relDone = TRUE,
                !.relSaw = RelSaw(lock[KeyOf(r)], r.tok[1]), !.pc = "done"])
  /\ UNCHANGED <<nextToken, hasWallet, balance, txs, cache, widCache,
                 reconRuns, hist, marker>>

\* The eval throws: releaseWalletLock rethrows out of the finally block.
ReleaseFails(w) ==
  LET r == wk[w] IN
  /\ r.pc = "release"
  /\ Step(w, [r EXCEPT !.relDone = TRUE, !.relErr = TRUE, !.pc = "done"])
  /\ UNCHANGED <<lock, nextToken, hasWallet, balance, txs, cache, widCache,
                 reconRuns, hist, marker>>

----------------------------------------------------------------------------
\* getUserProfileBalance, the balance read path.

\* balanceResponse.balance is the calculated balance of the verification.
ResponseBalanceCurrent(v) == v.currentBalance
ResponseBalance(v) == v.calculatedBalance

\* The value the read path caches: balanceResponse.balance.
ReadCacheValueStored(r) == r.snapBal
ReadCacheValue(r) == r.res[1]

\* await WalletRepository.verifyAndSyncBalance(userId).
Verify(w) ==
  LET r == wk[w]
      v == VerifyAndSyncBalance(r.user)
  IN
  /\ r.pc = "verify"
  /\ IF hasWallet[r.user]
     THEN /\ balance' = [balance EXCEPT ![r.user] = v.calculatedBalance]
          /\ Step(w, [r EXCEPT !.res = <<ResponseBalance(v)>>,
                        !.corrected = v.corrected, !.pc = "rcache"])
          /\ UNCHANGED reconRuns
     ELSE /\ Step(w, [r EXCEPT !.err = "wallet_not_found", !.pc = "done"])
          /\ reconRuns' = [reconRuns EXCEPT ![r.user] = 0]
          /\ UNCHANGED balance
  /\ UNCHANGED <<lock, nextToken, hasWallet, txs, cache, widCache, hist,
                 marker>>

\* The history cannot be read.
VerifyFails(w) ==
  LET r == wk[w] IN
  /\ r.pc = "verify"
  /\ Step(w, [r EXCEPT !.err = "reconciliation", !.pc = "done"])
  /\ reconRuns' = [reconRuns EXCEPT ![r.user] = 0]
  /\ UNCHANGED <<lock, nextToken, hasWallet, balance, txs, cache, widCache,
                 hist, marker>>

\* await redisClient.set(redisCacheKey, balanceResponse.balance), then the
\* response is returned.
ReadCacheWrite(w) ==
  LET r == wk[w]
      n == IF r.clean THEN Min(reconRuns[r.user] + 1, 2) ELSE 0
  IN
  /\ r.pc = "rcache"
  /\ cache' = [cache EXCEPT ![r.user] =
                 <<[v |-> ReadCacheValue(r), ttl |-> FALSE]>>]
  /\ reconRuns' = [reconRuns EXCEPT ![r.user] = n]
  /\ Step(w, [r EXCEPT !.nth = n, !.pc = "done"])
  /\ UNCHANGED <<lock, nextToken, hasWallet, balance, txs, widCache, hist,
                 marker>>

\* That cache write throws: the call fails although the ledger was synced.
ReadCacheFails(w) ==
  LET r == wk[w] IN
  /\ r.pc = "rcache"
  /\ Step(w, [r EXCEPT !.err = "cache", !.pc = "done"])
  /\ reconRuns' = [reconRuns EXCEPT ![r.user] = 0]
  /\ UNCHANGED <<lock, nextToken, hasWallet, balance, txs, cache, widCache,
                 hist, marker>>

----------------------------------------------------------------------------
\* Redis expiry.  A call may take any time between two of its awaits, so a
\* key with an expiry may be gone at any step after it was set.

\* PX WALLET_LOCK_DURATION: the lock key disappears by itself.
LockNeverExpires(k) == FALSE
LockExpires(k) ==
  /\ lock[k] # <<>>
  /\ lock' = [lock EXCEPT ![k] = <<>>]
  /\ UNCHANGED <<nextToken, hasWallet, balance, txs, cache, widCache, wk,
                 reconRuns, hist, marker>>

\* EX CACHE_EXPIRATION: a wallet_balance entry written with an expiry, or the
\* wallet_id entry, disappears by itself.
CacheExpires(u) ==
  /\ \/ /\ cache[u] # <<>>
        /\ cache[u][1].ttl
        /\ cache' = [cache EXCEPT ![u] = <<>>]
        /\ UNCHANGED widCache
     \/ /\ widCache[u]
        /\ widCache' = [widCache EXCEPT ![u] = FALSE]
        /\ UNCHANGED cache
  /\ UNCHANGED <<lock, nextToken, hasWallet, balance, txs, wk, reconRuns,
                 hist, marker>>

----------------------------------------------------------------------------
\* initializeWallet: the wallet of a new user, made at registration.  No lock
\* is taken.

\* INSERT INTO wallets (wallet_id, user_id, balance, currency) VALUES ($1, $2,
\* 0, 'KSH'): the statement has no ON CONFLICT clause and no check before it;
\* the wallets table takes one row per user_id.
WalletInsertNoConstraint(u) == "inserted"
WalletInsert(u) == IF hasWallet[u] THEN "unique_violation" ELSE "inserted"

BeginInit(w, u) ==
  /\ CanStart(w, u)
  /\ Started(w, [Idle EXCEPT !.op = "initializeWallet", !.user = u,
                             !.pc = "insert"], u)
  /\ reconRuns' = [reconRuns EXCEPT ![u] = 0]
  /\ UNCHANGED <<lock, nextToken, hasWallet, balance, txs, cache, widCache,
                 hist, marker>>

\* await client.query(createWalletQuery, [walletId, userId]).
InsertWallet(w) ==
  LET r == wk[w] IN
  /\ r.pc = "insert"
  /\ IF WalletInsert(r.user) = "inserted"
     THEN /\ balance' = [balance EXCEPT ![r.user] =
                           IF hasWallet[r.user] THEN @ ELSE 0]
          /\ hasWallet' = [hasWallet EXCEPT ![r.user] = TRUE]
          /\ Step(w, [r EXCEPT !.res = <<0>>, !.created = TRUE,
                        !.pc = "widcache"])
     ELSE /\ Step(w, [r EXCEPT !.err = "wallet_exists", !.pc = "done"])
          /\ UNCHANGED <<hasWallet, balance>>
  /\ UNCHANGED <<lock, nextToken, txs, cache, widCache, reconRuns, hist,
                 marker>>

\* The statement fails in the store: nothing is written.
InsertFails(w) ==
  LET r == wk[w] IN
  /\ r.pc = "insert"
  /\ Step(w, [r EXCEPT !.err = "persistence", !.pc = "done"])
  /\ UNCHANGED <<lock, nextToken, hasWallet, balance, txs, cache, widCache,
                 reconRuns, hist, marker>>

----------------------------------------------------------------------------
\* clearOutdatedRedisEntries, scheduleRedisCleanup, manualRedisCleanup.

\* const keyPatterns = [...]: the loop takes them in this order.
KeyPatternsWithLock ==
  <<"wallet_balance", "wallet_id", "transaction_history", "user_token",
    "bet_history", "wallet_lock">>
KeyPatterns ==
  <<"wallet_balance", "wallet_id", "transaction_history", "user_token",
    "bet_history">>

\* A key <<prefix, userId>> is matched by the pattern of that prefix built
\* for that user.
Matches(key, pattern, u) == key[1] = pattern /\ key[2] = u

\* redisClient.keys(pattern) returns a key.  Nothing in the service writes a
\* transaction_history, user_token or bet_history key.
KeysFound(pattern, u) ==
  \/ Matches(<<"wallet_balance", u>>, pattern, u) /\ cache[u] # <<>>
  \/ Matches(<<"wallet_id", u>>, pattern, u) /\ widCache[u]
  \/ Matches(<<"redis_cleanup", u>>, pattern, u) /\ marker[u]
  \/ \E k \in LockKeys : Matches(k, pattern, u) /\ lock[k] # <<>>

\* for (const pattern of keyPatterns): the next round of the loop, or the
\* end of the call.
NextPattern(r) ==
  IF r.pat < Len(KeyPatterns) THEN [r EXCEPT !.pat = @ + 1, !.pc = "ckeys"]
  ELSE [r EXCEPT !.pc = "done"]

\* The call starts: scheduleRedisCleanup reads the marker first, the other
\* two go into the loop.
BeginCleanup(w, op, u) ==
  /\ CanStart(w, u)
  /\ Started(w, [Idle EXCEPT !.op = op, !.user = u, !.pat = 1,
                   !.pc = IF op = "scheduleRedisCleanup" THEN "sget"
                          ELSE "ckeys"], u)
  /\ reconRuns' = [reconRuns EXCEPT ![u] = 0]
  /\ UNCHANGED <<lock, nextToken, hasWallet, balance, txs, cache, widCache,
                 hist, marker>>

\* const existingCleanup = await redisClient.get(cleanupKey);
\* if (existingCleanup) return.
MarkerGet(w) ==
  LET r == wk[w] IN
  /\ r.pc = "sget"
  /\ Step(w, [r EXCEPT !.pc = IF marker[r.user] THEN "done" ELSE "sset"])
  /\ UNCHANGED <<lock, nextToken, hasWallet, balance, txs, cache, widCache,
                 reconRuns, hist, marker>>

\* await redisClient.set(cleanupKey, 'scheduled', {EX, NX}): the answer is
\* not looked at, the cleanup follows.
MarkerSet(w) ==
  LET r == wk[w] IN
  /\ r.pc = "sset"
  /\ marker' = [marker EXCEPT ![r.user] = TRUE]
  /\ Step(w, [r EXCEPT !.setOk = ~marker[r.user], !.pc = "ckeys"])
  /\ UNCHANGED <<lock, nextToken, hasWallet, balance, txs, cache, widCache,
                 reconRuns, hist>>

\* const keys = await redisClient.keys(pattern); if (keys.length > 0) ...
CleanupKeys(w) ==
  LET r == wk[w] IN
  /\ r.pc = "ckeys"
  /\ Step(w, IF KeysFound(KeyPatterns[r.pat], r.user)
             THEN [r EXCEPT !.pc = "cdel"] ELSE NextPattern(r))
  /\ UNCHANGED <<lock, nextToken, hasWallet, balance, txs, cache, widCache,
                 reconRuns, hist, marker>>

\* await redisClient.del(...keys): the keys of the pattern are gone.
CleanupDel(w) ==
  LET r == wk[w]
      u == r.user
      pattern == KeyPatterns[r.pat]
  IN
  /\ r.pc = "cdel"
  /\ cache' = [cache EXCEPT ![u] =
                 IF Matches(<<"wallet_balance", u>>, pattern, u) THEN <<>>
                 ELSE @]
  /\ widCache' = [widCache EXCEPT ![u] =
                    IF Matches(<<"wallet_id", u>>, pattern, u) THEN FALSE
                    ELSE @]
  /\ marker' = [marker EXCEPT ![u] =
                  IF Matches(<<"redis_cleanup", u>>, pattern, u) THEN FALSE
                  ELSE @]
  /\ lock' = [k \in LockKeys |->
                IF Matches(k, pattern, u) THEN <<>> ELSE lock[k]]
  /\ Step(w, NextPattern([r EXCEPT !.cleaned = TRUE]))
  /\ UNCHANGED <<nextToken, hasWallet, balance, txs, reconRuns, hist>>

\* A Redis call of the cleanup throws: the catch block logs it and the call
\* ends without an error for its caller.
CleanupFails(w) ==
  LET r == wk[w] IN
  /\ r.pc \in {"sget", "sset", "ckeys", "cdel"}
  /\ Step(w, [r EXCEPT !.logged = TRUE, !.pc = "done"])
  /\ UNCHANGED <<lock, nextToken, hasWallet, balance, txs, cache, widCache,
                 reconRuns, hist, marker>>

\* EX intervalMinutes * 60: the marker disappears by itself.
MarkerExpires(u) ==
  /\ marker[u]
  /\ marker' = [marker EXCEPT ![u] = FALSE]
  /\ UNCHANGED <<lock, nextToken, hasWallet, balance, txs, cache, widCache,
                 wk, reconRuns, hist>>

----------------------------------------------------------------------------
\* One caller that awaits each call before it makes the next.

\* return { success: true, ..., newBalance } or the rethrown error reaches
\* the caller, which is then free to make its next call.
Return(w) ==
  LET r == wk[w]
      ok == r.err = "none" /\ ~r.relErr
  IN
  /\ r.pc = "done"
  /\ hist' = Append(hist,
                IF ok THEN [ok |-> TRUE, op |-> r.op, amt |-> r.amt,
                            ret |-> r.res[1], bal |-> balance[r.user]]
                ELSE [ok |-> FALSE, op |-> "none", amt |-> 0, ret |-> 0,
                      bal |-> balance[r.user]])
  /\ Step(w, Idle)
  /\ UNCHANGED <<lock, nextToken, hasWallet, balance, txs, cache, widCache,
                 reconRuns, marker>>

\* The calls the caller picks from: a deposit of 1000, a bet of 200, winnings
\* of 500 and a cashout of 1300.
SeqCalls ==
  {[op |-> "deposit", amt |-> 1000], [op |-> "placeBet", amt |-> 200],
   [op |-> "processWinnings", amt |-> 500], [op |-> "cashout", amt |-> 1300]}

\* The caller makes its next call, MaxSeqLen calls in all.
BeginSeq(w, u, c) ==
  /\ Len(hist) < MaxSeqLen
  /\ BeginMut(w, c.op, u, c.amt)

NextSeq ==
  \/ \E c \in SeqCalls : BeginSeq(1, 1, c)
  \/ AcquireWalletLock(1)
  \/ AcquireFails(1)
  \/ Ledger(1)
  \/ LedgerFails(1)
  \/ CacheWrite(1)
  \/ CacheWriteFails(1)
  \/ Notify(1)
  \/ NotifyFails(1)
  \/ ReleaseWalletLock(1)
  \/ ReleaseFails(1)
  \/ Return(1)
  \/ \E k \in LockKeys : LockExpires(k)

\* Wallet creation: createWallet, initializeWallet and deposit (which makes
\* the wallet when there is none) in every interleaving.
NextWallet ==
  \/ \E w \in Workers, u \in Users :
       \/ BeginCreate(w, u)
       \/ BeginInit(w, u)
       \/ \E a \in Amounts : BeginMut(w, "deposit", u, a)
  \/ \E w \in Workers :
       \/ AcquireWalletLock(w)
       \/ AcquireFails(w)
       \/ Ledger(w)
       \/ CreateLedger(w)
       \/ LedgerFails(w)
       \/ InsertWallet(w)
       \/ InsertFails(w)
       \/ CacheWrite(w)
       \/ CacheWriteFails(w)
       \/ WidCacheWrite(w)
       \/ ReleaseWalletLock(w)
       \/ ReleaseFails(w)
  \/ \E k \in LockKeys : LockExpires(k)

\* The cleanup calls next to depositFunds, which holds the lock and writes
\* the wallet_balance and wallet_id keys.
NextCleanup ==
  \/ \E w \in Workers, u \in Users :
       \/ \E op \in CleanupOps : BeginCleanup(w, op, u)
       \/ \E a \in Amounts : BeginMut(w, "depositFunds", u, a)
  \/ \E w \in Workers :
       \/ MarkerGet(w)
       \/ MarkerSet(w)
       \/ CleanupKeys(w)
       \/ CleanupDel(w)
       \/ CleanupFails(w)
       \/ AcquireWalletLock(w)
       \/ AcquireFails(w)
       \/ GetWalletId(w)
       \/ Ledger(w)
       \/ LedgerFails(w)
       \/ CacheWrite(w)
       \/ CacheWriteFails(w)
       \/ WidCacheWrite(w)
       \/ ReleaseWalletLock(w)
       \/ ReleaseFails(w)
  \/ \E k \in LockKeys : LockExpires(k)
  \/ \E u \in Users :
       \/ CacheExpires(u)
       \/ MarkerExpires(u)

----------------------------------------------------------------------------
Next ==
  \/ \E w \in Workers, u \in Users :
       \/ \E op \in AmountOps, a \in Amounts : BeginMut(w, op, u, a)
       \/ BeginCreate(w, u)
       \/ BeginRead(w, u)
  \/ \E w \in Workers :
       \/ AcquireWalletLock(w)
       \/ AcquireFails(w)
       \/ GetWalletId(w)
       \/ Ledger(w)
       \/ CreateLedger(w)
       \/ LedgerFails(w)
       \/ CacheWrite(w)
       \/ CacheWriteFails(w)
       \/ WidCacheWrite(w)
       \/ Notify(w)
       \/ NotifyFails(w)
       \/ ReleaseWalletLock(w)
       \/ ReleaseFails(w)
       \/ Verify(w)
       \/ VerifyFails(w)
       \/ ReadCacheWrite(w)
       \/ ReadCacheFails(w)
  \/ \E k \in LockKeys : LockExpires(k)
  \/ \E u \in Users : CacheExpires(u)

Spec == Init /\ [][Next]_vars

SpecDrift == InitDrift /\ [][Next]_vars

\* One caller on a new wallet, one call after the other.
SpecSeq == Init /\ [][NextSeq]_vars

\* The wallet creation paths on new users.
SpecWallet == Init /\ [][NextWallet]_vars

\* The cleanup calls next to a mutating call.
SpecCleanup == Init /\ [][NextCleanup]_vars

\* Redis deletes a key with PX when its time is up: the expiry of a lock key
\* that exists is not postponed forever.  Nothing is assumed of the calls: a
\* call may stop for good between any two of its steps.
SpecFair == Init /\ [][Next]_vars /\ \A k \in LockKeys : WF_vars(LockExpires(k))

----------------------------------------------------------------------------
\* What the claims speak about.

\* The five operations of the transaction orchestrator.
LedgerOps == {"deposit", "withdraw", "placeBet", "processWinnings", "cashout"}

\* Between the successful acquireWalletLock and the release step.
InCS(w) == wk[w].tok # <<>> /\ Active(w)

\* The call's ledger mutation has committed.
Committed(w) == wk[w].op \in MutOps /\ wk[w].res # <<>>

\* The call has returned its result / has thrown to its caller.
Succeeded(w) == wk[w].pc = "done" /\ wk[w].err = "none" /\ ~wk[w].relErr
Failed(w) == wk[w].pc = "done" /\ (wk[w].err # "none" \/ wk[w].relErr)

\* The balance a committed row was computed from.
PreBalance(w) == wk[w].res[1] - LedgerCall(wk[w].op, wk[w].user, wk[w].amt).row.amount

\* The sum of the first i amounts of a history.
RunningSum(s, i) == SumAmounts(SubSeq(s, 1, i))

----------------------------------------------------------------------------
\* C1: in every reachable state, for every user, at most one mutating
\* operation is between its successful acquireWalletLock and its release
\* step, also when the lock key expires by itself.
C1_OneInFlightPerUser ==
  \A u \in Users :
    Cardinality({w \in Workers : InCS(w) /\ wk[w].op \in MutOps
                                  /\ wk[w].user = u}) <= 1

\* C2: whatever operations have committed and however they interleaved, the
\* stored balance of every wallet is the sum of the amounts of its
\* transaction rows, and every row's balanceAfter is the sum up to that row.
C2_BalanceIsSumOfAmounts ==
  \A u \in Users :
    /\ balance[u] = SumAmounts(txs[u])
    /\ \A i \in 1..Len(txs[u]) :
         txs[u][i].balanceAfter = RunningSum(txs[u], i)

\* Two operations of one user, a withdraw and a deposit, have both committed
\* and returned their results.
C2_Witness ==
  \E a, b \in Workers :
    /\ a # b /\ wk[a].user = wk[b].user
    /\ Succeeded(a) /\ Succeeded(b)
    /\ wk[a].op = "withdraw" /\ wk[b].op = "deposit"
    /\ Len(txs[wk[a].user]) = 2
    /\ balance[wk[a].user] # 0

\* C3: a lock that is held is never deleted or overwritten by the step of a
\* call that holds another token; a release that finds another token (or no
\* key) under the lock key changes nothing and raises no error.
C3_ReleaseOnlyOwnToken ==
  [][\A w \in Workers :
       /\ \A k \in LockKeys :
            (wk[w].pc # wk'[w].pc /\ lock[k] # <<>>
               /\ lock[k] # wk[w].tok /\ lock[k] # wk'[w].tok)
            => lock'[k] = lock[k]
       /\ (wk[w].pc = "release" /\ wk'[w].pc = "done" /\ ~wk'[w].relErr
             /\ lock[KeyOf(wk[w])] # wk[w].tok)
            => (lock' = lock /\ wk'[w].err = wk[w].err)]_vars

\* A's lock expired, B acquired the key with a fresh token, A has released
\* since without an error, and B still holds the lock.
C3_Witness ==
  \E a, b \in Workers :
    /\ a # b /\ wk[a].user = wk[b].user
    /\ wk[a].pc = "done" /\ wk[a].relSaw = "other" /\ ~wk[a].relErr
    /\ InCS(b) /\ lock[KeyOf(wk[b])] = wk[b].tok

\* C4: two placeBet calls of one user never hold the lock at the same time
\* (the second acquires only after the first has released, or one of them
\* fails with contention and leaves the ledger alone), and their two bets are
\* never computed from the same pre-bet balance.
C4_BetsSerialized ==
  \A a, b \in Workers :
    (a # b /\ wk[a].op = "placeBet" /\ wk[b].op = "placeBet"
       /\ wk[a].user = wk[b].user)
    => /\ ~(InCS(a) /\ InCS(b))
       /\ (wk[a].err = "contention" => ~Committed(a))
       /\ (Committed(a) /\ Committed(b)) => PreBalance(a) # PreBalance(b)

\* C5: a deposit, withdraw, placeBet, processWinnings or cashout with an
\* amount <= 0 ends in the step that starts it, with the validation error, and
\* that step creates no lock key, records no row, leaves the stored balance
\* and the cache alone and attempts no release.
C5_InvalidAmountNoEffect ==
  [][\A w \in Workers :
       (wk[w].pc = "idle" /\ wk'[w].pc # "idle" /\ wk'[w].op \in LedgerOps
          /\ wk'[w].amt <= 0)
       => /\ wk'[w].pc = "done" /\ wk'[w].err = "validation"
          /\ wk'[w].tok = <<>> /\ wk'[w].res = <<>> /\ ~wk'[w].relDone
          /\ UNCHANGED <<lock, nextToken, hasWallet, balance, txs, cache,
                         widCache>>]_vars

\* A withdraw of amount 0 has failed validation while another call of the
\* same user holds the lock.
C5_Witness ==
  \E a, b \in Workers :
    /\ a # b /\ wk[a].user = wk[b].user
    /\ wk[a].op = "withdraw" /\ wk[a].amt = 0
    /\ wk[a].pc = "done" /\ wk[a].err = "validation"
    /\ InCS(b)

\* C6: a call that acquired the lock has run its release step when it
\* returns or throws, and unless that step itself threw, the lock key no
\* longer holds the call's token.
C6_ReleaseBeforeReturn ==
  \A w \in Workers :
    (wk[w].pc = "done" /\ wk[w].tok # <<>>)
    => /\ wk[w].relDone
       /\ ~wk[w].relErr => lock[KeyOf(wk[w])] # wk[w].tok

\* Calls have left through the cache-write failure and through the ledger
\* failure, each after releasing its own token.
C6_Witness ==
  \E a, b \in Workers :
    /\ wk[a].pc = "done" /\ wk[a].err = "cache" /\ wk[a].relSaw = "own"
    /\ wk[b].pc = "done" /\ wk[b].err = "persistence" /\ wk[b].relSaw = "own"

\* C7: while the balance read path is between the start of its
\* verifyAndSyncBalance and the end of its cache write, no deposit, withdraw,
\* placeBet, processWinnings or cashout of the same user is in flight.
C7_ReadExcludesMutation ==
  \A r, m \in Workers :
    (wk[r].op = ReadOp /\ wk[r].pc \in {"verify", "rcache"}
       /\ wk[m].op \in LedgerOps /\ wk[m].user = wk[r].user)
    => ~InCS(m)

\* C8: the second of two balance reads in a row, with no other call of the
\* user in between, reports corrected = false and leaves the stored balance
\* and the cached balance as it found them.
C8_ReconcileIdempotent ==
  \A w \in Workers :
    (wk[w].op = ReadOp /\ Succeeded(w) /\ wk[w].clean /\ wk[w].nth >= 2)
    => /\ ~wk[w].corrected
       /\ balance[wk[w].user] = wk[w].snapBal
       /\ cache[wk[w].user] = wk[w].snapCache

\* The first read corrected a drifted balance, the second one ran after it.
C8_Witness ==
  \E a, b \in Workers :
    /\ a # b /\ wk[a].user = wk[b].user
    /\ wk[a].op = ReadOp /\ Succeeded(a) /\ wk[a].corrected
    /\ wk[b].op = ReadOp /\ Succeeded(b) /\ wk[b].clean /\ wk[b].nth >= 2

\* C9: when a balance read has completed with no other call of the user
\* around, the balance it returned, the stored balance and the cached
\* wallet_balance all equal the sum of the wallet's amounts, and corrected
\* tells whether the stored balance differed from that sum before the call.
C9_ReadReturnsLedgerSum ==
  \A w \in Workers :
    (wk[w].op = ReadOp /\ Succeeded(w) /\ wk[w].clean)
    => LET u == wk[w].user
           sum == SumAmounts(txs[u])
       IN /\ wk[w].res = <<sum>>
          /\ balance[u] = sum
          /\ cache[u] # <<>> /\ cache[u][1].v = sum
          /\ wk[w].corrected = (wk[w].snapBal # sum)

\* A read has corrected a drifted balance and returned the sum.
C9_Witness ==
  \E w \in Workers :
    /\ wk[w].op = ReadOp /\ Succeeded(w) /\ wk[w].clean
    /\ wk[w].corrected /\ wk[w].snapBal # balance[wk[w].user]

\* C10: when the ledger mutation has committed and the cache write after it
\* failed, the operation returns its success result.
C10_CacheFailureSwallowed ==
  \A w \in Workers :
    (wk[w].op \in LedgerOps /\ wk[w].pc = "done" /\ Committed(w)
       /\ wk[w].cacheFail /\ ~wk[w].relErr)
    => Succeeded(w)

\* C11: a placeBet, processWinnings or cashout whose ledger mutation has
\* committed and whose emitWalletUpdate then threw (nothing else failed)
\* returns its success result, and its transaction row stands.
C11_NotifyFailureSwallowed ==
  \A w \in Workers :
    (wk[w].pc = "done" /\ wk[w].op \in NotifyOps /\ Committed(w)
       /\ wk[w].notifyFail /\ ~wk[w].relErr)
    => /\ Succeeded(w)
       /\ \E i \in 1..Len(txs[wk[w].user]) :
            txs[wk[w].user][i].by = wk[w].tok[1]

\* C12: a deposit, withdraw, placeBet, processWinnings or cashout that has
\* reported a failure to its caller has written no transaction row: its
\* ledger mutation never committed and no row carries its token.
C12_FailureLeavesNoRow ==
  \A w \in Workers :
    (Failed(w) /\ wk[w].op \in LedgerOps)
    => /\ ~Committed(w)
       /\ \A i \in 1..Len(txs[wk[w].user]) :
            <<txs[wk[w].user][i].by>> # wk[w].tok

\* C13: once the ledger call of an operation has failed, no step of that
\* operation changes a wallet, a balance, a transaction history or a cache
\* entry, and when the operation reports to its caller it reports the ledger
\* failure, its release step is behind it (the key no longer holds its token
\* unless the release itself failed), and no row carries its token.
C13_LedgerFailureNoPartialState ==
  [][\A w \in Workers :
       /\ (wk'[w].ledgerFail /\ wk'[w].pc # wk[w].pc)
            => UNCHANGED <<hasWallet, balance, txs, cache, widCache>>
       /\ (wk'[w].ledgerFail /\ wk'[w].pc = "done")
            => /\ wk'[w].err = "persistence"
               /\ wk'[w].res = <<>>
               /\ wk'[w].relDone
               /\ ~wk'[w].relErr => lock'[KeyOf(wk'[w])] # wk'[w].tok
               /\ \A i \in 1..Len(txs'[wk'[w].user]) :
                    <<txs'[wk'[w].user][i].by>> # wk'[w].tok]_vars

\* A deposit whose ledger call failed has released its lock and thrown, on a
\* wallet that holds a row and a cache entry of another call.
C13_Witness ==
  \E w \in Workers :
    /\ wk[w].pc = "done" /\ wk[w].op = "deposit" /\ wk[w].ledgerFail
    /\ wk[w].relDone /\ wk[w].relSaw = "own" /\ ~wk[w].relErr
    /\ txs[wk[w].user] # <<>> /\ cache[wk[w].user] # <<>>

\* C14: while a call of a user is in its critical section with its token
\* under its lock key, the acquire step of any other call of the same user,
\* whatever the purposes of the two (deposit_transaction,
\* bet_placement_transaction, withdrawal_transaction,
\* game_winnings_transaction, cashout_transaction, wallet_creation), ends in
\* contention (unless the lock service itself fails): it gets no token and
\* sets no key.
C14_PurposesShareLock ==
  [][\A w, b \in Workers :
       (b # w /\ wk[w].pc = "acquire" /\ wk'[w].pc # "acquire"
          /\ wk'[w].err # "lock_service"
          /\ wk[b].user = wk[w].user /\ InCS(b)
          /\ lock[KeyOf(wk[b])] = wk[b].tok)
       => (wk'[w].err = "contention" /\ wk'[w].tok = <<>>
             /\ lock' = lock)]_vars

\* A placeBet has been refused with contention while a deposit of the same
\* user holds the lock.
C14_Witness ==
  \E w, b \in Workers :
    /\ wk[b].op = "deposit" /\ InCS(b) /\ lock[KeyOf(wk[b])] = wk[b].tok
    /\ wk[w].op = "placeBet" /\ wk[w].user = wk[b].user
    /\ wk[w].pc = "done" /\ wk[w].err = "contention"

C16_LockEventuallyFree ==
  \A k \in LockKeys : (lock[k] # <<>>) ~> (lock[k] = <<>>)

\* A holder stalled before its ledger call, its key expired, and a later call
\* of the same user has acquired the lock.
C16_Witness ==
  \E a, b \in Workers :
    /\ a # b /\ wk[a].user = wk[b].user
    /\ wk[a].pc = "ledger" /\ wk[a].tok # <<>>
    /\ wk[b].tok # <<>> /\ wk[a].tok[1] < wk[b].tok[1]
    /\ lock[KeyOf(wk[b])] = wk[b].tok

\* C17: the row a committed deposit, processWinnings or cashout of amount a
\* has written carries +a, the row of a placeBet or a withdraw carries -a,
\* and the balance the call returns is the balance before the row plus that
\* signed amount.
C17_SignedAmounts ==
  \A w \in Workers :
    (Committed(w) /\ wk[w].op \in LedgerOps)
    => LET u == wk[w].user
           signed == IF wk[w].op \in {"placeBet", "withdraw"}
                     THEN 0 - wk[w].amt ELSE wk[w].amt
       IN \E i \in 1..Len(txs[u]) :
            /\ txs[u][i].by = wk[w].tok[1]
            /\ txs[u][i].amount = signed
            /\ wk[w].res[1] = RunningSum(txs[u], i - 1) + signed

\* C18: one caller on a new wallet (SpecSeq).  Every call that returns its
\* result returns the balance the wallet had before the call plus the signed
\* amount (+a for deposit, processWinnings, cashout, -a for placeBet), and
\* leaves the wallet with the balance it returned, so that in a run of
\* successful calls each newBalance is the running total; deposit 1000,
\* placeBet 200, processWinnings 500, cashout 1300 return 1000, 800, 1300,
\* 2600.
C18_ReturnsRunningTotal ==
  /\ \A i \in 1..Len(hist) :
       hist[i].ok =>
         /\ hist[i].ret = (IF i = 1 THEN 0 ELSE hist[i - 1].bal)
                          + (IF hist[i].op = "placeBet" THEN 0 - hist[i].amt
                             ELSE hist[i].amt)
         /\ hist[i].bal = hist[i].ret
  /\ ([i \in 1..Len(hist) |-> <<hist[i].ok, hist[i].op, hist[i].amt>>]
        = <<<<TRUE, "deposit", 1000>>, <<TRUE, "placeBet", 200>>,
            <<TRUE, "processWinnings", 500>>, <<TRUE, "cashout", 1300>>>>)
     => [i \in 1..Len(hist) |-> hist[i].ret] = <<1000, 800, 1300, 2600>>

\* The four calls of the scenario have returned 1000, 800, 1300 and 2600.
C18_Witness ==
  /\ Len(hist) = 4
  /\ [i \in 1..4 |-> hist[i].op]
       = <<"deposit", "placeBet", "processWinnings", "cashout">>
  /\ [i \in 1..4 |-> hist[i].ret] = <<1000, 800, 1300, 2600>>
  /\ \A i \in 1..4 : hist[i].ok

\* C19: the rows of a user's history are in the order in which the calls
\* that wrote them acquired the lock (tokens are issued in that order).
C19_RowsInAcquisitionOrder ==
  \A u \in Users :
    \A i, j \in 1..Len(txs[u]) : i < j => txs[u][i].by < txs[u][j].by

\* C20: an acquire step ends in contention only when a call of the same user
\* has its token under the key: a key held for another user never refuses it.
C20_DifferentUsersNeverContend ==
  [][\A w \in Workers :
       (wk[w].pc = "acquire" /\ wk'[w].err = "contention")
       => \E b \in Workers \ {w} :
            /\ wk[b].user = wk[w].user
            /\ wk[b].tok # <<>>
            /\ lock[KeyOf(wk[w])] = wk[b].tok]_vars

\* A call of one user is stalled before its ledger call, holding its lock,
\* and a call of another user that acquired its lock later has released it
\* and returned its result.
C20_Witness ==
  \E a, b \in Workers :
    /\ wk[a].user # wk[b].user
    /\ wk[a].pc = "ledger" /\ wk[a].tok # <<>>
    /\ lock[KeyOf(wk[a])] = wk[a].tok
    /\ Succeeded(b) /\ wk[b].tok # <<>> /\ wk[b].relSaw = "own"
    /\ wk[a].tok[1] < wk[b].tok[1]

\* C21: when no call is in flight for a user whose history is not empty, the
\* balanceAfter of the newest transaction row is the stored balance of the
\* wallet, also when a balance read has corrected the stored balance.
C21_LastBalanceAfterIsBalance ==
  \A u \in Users :
    (txs[u] # <<>> /\ \A w \in Workers : ~(Active(w) /\ wk[w].user = u))
    => txs[u][Len(txs[u])].balanceAfter = balance[u]

C23_CacheEntriesExpire ==
  \A u \in Users : cache[u] # <<>> => cache[u][1].ttl

\* C24: when no call, mutating or reading, is in flight for a user and no
\* cache write of a call of that user has failed, the wallet_balance entry of
\* the user, when there is one, is the stored balance of the wallet.
C24_QuiescentCacheIsBalance ==
  \A u \in Users :
    (/\ cache[u] # <<>>
     /\ \A w \in Workers :
          wk[w].user = u => (~Active(w) /\ ~wk[w].cacheFail
                               /\ wk[w].err # "cache"))
    => cache[u][1].v = balance[u]

\* C25: a step of clearOutdatedRedisEntries, scheduleRedisCleanup or
\* manualRedisCleanup changes no lock key and no token, no wallet, balance or
\* transaction row, and no wallet_balance or wallet_id key of another user.
C25_CleanupLeavesLockAndLedger ==
  [][\A w \in Workers :
       (wk'[w] # wk[w]
          /\ (wk[w].op \in CleanupOps \/ wk'[w].op \in CleanupOps))
       => /\ UNCHANGED <<lock, nextToken, hasWallet, balance, txs>>
          /\ \A v \in Users \ {wk'[w].user} :
               cache'[v] = cache[v] /\ widCache'[v] = widCache[v]]_vars

\* A cleanup has deleted a key of a user while a depositFunds of that user,
\* its row committed, still holds the lock with its own token.
C25_Witness ==
  \E c, m \in Workers :
    /\ wk[c].op \in CleanupOps /\ wk[c].cleaned
    /\ wk[m].user = wk[c].user /\ InCS(m) /\ Committed(m)
    /\ lock[KeyOf(wk[m])] = wk[m].tok
    /\ cache[wk[m].user] = <<>>

\* C26: a scheduleRedisCleanup that goes through the cleanup loop is one
\* whose conditional set of the redis_cleanup marker succeeded.
C26_CleanupOnlyAfterOwnMarker ==
  \A w \in Workers :
    (wk[w].op = "scheduleRedisCleanup" /\ wk[w].pc \in {"ckeys", "cdel"})
    => wk[w].setOk

====
